---------------------------- MODULE Spec2Model ----------------------------
(***************************************************************************)
(* A model of the cache benchmark core of lru_bench (src/src/cache.rs):    *)
(* the operation type Op, the CacheOps adapters, WarmupManager::           *)
(* warmup_cache, CacheRunner::run_cache with its simulated backend         *)
(* latency, and the workload / warmup generators.                          *)
(*                                                                         *)
(* run_cache is an async fn: it is a state machine that is created, polled *)
(* and suspended at the two `.await`s of simulate_backend_latency (lines   *)
(* 254 and 259).  A replay is a task r; every local of run_cache is a      *)
(* function over the tasks.                                                *)
(***************************************************************************)
EXTENDS Integers, Sequences, FiniteSets, TLC

(***************************************************************************)
(* Bounds of the model.                                                    *)
(***************************************************************************)
\* longest measured operation sequence handed to run_cache
MaxOps == 3
\* longest warmup sequence handed to warmup_cache
MaxWarmup == 1
\* two replays of one sequence: its longest length
MaxOpsMulti == 2
\* two replays of two sequences: the longest length of each
MaxOpsIso == 1
\* in the warmup specification: longest warmup and measured sequences
MaxWarmupLong == 2
MaxOpsShort == 2

\* generators: largest total key space, workload size and cache capacity of
\* a configuration, and the calls made on one generator instance
MaxKeys == 3
MaxWorkload == 2
MaxCapacity == 2
MaxCalls == 2

(***************************************************************************)
(* Program constants (src/src/config.rs).  ZIPF_S and READ_RATIO are the   *)
(* f64 constants 1.6 and 0.95, held in tenths and in percent.              *)
(***************************************************************************)
MIN_DELAY_US == 1000
MAX_DELAY_US == 2000
ZIPF_S10 == 16
READ_RATIO_PCT == 95
WARMUP_SEED == 123
WORKLOAD_SEED == 42

(***************************************************************************)
(* enum Op { Read(usize), Write(usize, usize) }                            *)
(***************************************************************************)
Read(k) == [type |-> "Read", key |-> k]
Write(k, v) == [type |-> "Write", key |-> k, val |-> v]

\* keys and values the input sequences are drawn from: 0 is divisible by 10
\* (the warmup side effect), 1 is not; the values differ from every key
Keys == {0, 1}
Vals == {7, 8}
WarmVals == {7}

OpSet == {Read(k) : k \in Keys} \cup {Write(k, v) : k \in Keys, v \in Vals}
WarmOpSet == {Read(k) : k \in Keys} \cup {Write(k, v) : k \in Keys, v \in WarmVals}

SeqsUpTo(S, n) == UNION {[1..m -> S] : m \in 0..n}

(***************************************************************************)
(* The adapters (trait CacheOps).  An adapter is a record                  *)
(*   [bounded, cap, entries]                                               *)
(* whose entries are <<key, value>> pairs from the least to the most       *)
(* recently used.  bounded = TRUE is the LRU of hashlink / lru with `cap`  *)
(* entries; bounded = FALSE is a reference adapter that never evicts.      *)
(***************************************************************************)
NewCache(bounded, cap) == [bounded |-> bounded, cap |-> cap, entries |-> <<>>]

Has(c, k) == \E j \in 1..Len(c.entries) : c.entries[j][1] = k

Lookup(c, k) == LET j == CHOOSE j \in 1..Len(c.entries) : c.entries[j][1] = k
                IN  c.entries[j][2]

KeysOf(c) == {c.entries[j][1] : j \in 1..Len(c.entries)}

Without(es, k) == SelectSeq(es, LAMBDA e : e[1] # k)

\* get(&mut self, key): a hit makes the entry the most recently used
CacheGet(c, k) ==
    IF Has(c, k)
    THEN [c EXCEPT !.entries = Append(Without(c.entries, k), <<k, Lookup(c, k)>>)]
    ELSE c

\* an insert that keeps the value already stored under the key
CacheInsertKeepOld(c, k, v) ==
    IF Has(c, k)
    THEN CacheGet(c, k)
    ELSE LET kept == IF c.bounded /\ Len(c.entries) >= c.cap
                     THEN Tail(c.entries)
                     ELSE c.entries
         IN  [c EXCEPT !.entries = Append(kept, <<k, v>>)]
\* insert(&mut self, key, value): upsert as the most recently used entry; a
\* bounded adapter that is full drops its least recently used entry first
CacheInsert(c, k, v) ==
    LET rest == Without(c.entries, k)
        kept == IF c.bounded /\ ~Has(c, k) /\ Len(rest) >= c.cap
                THEN Tail(rest)
                ELSE rest
    IN  [c EXCEPT !.entries = Append(kept, <<k, v>>)]


(***************************************************************************)
(* State.                                                                  *)
(***************************************************************************)
VARIABLES
    tasks,       \* the replays of this run (each one call of run_cache)
    timed,       \* whether the time source records the time slept
    warmup_ops,  \* the warmup sequence (bench: generated once, shared)
    ops,         \* ops[r]: the slice handed to run_cache
    cache,       \* cache[r]: the adapter owned by replay r
    cache0,      \* cache0[r]: the adapter as it was moved into run_cache
    pc,          \* pc[r]: where the future of replay r stands
    i,           \* i[r]: 1-based position of the `for op in ops` loop
    hits,        \* hits[r], misses[r]: the counters of run_cache
    misses,
    delay,       \* delay[r]: nanoseconds of the sleep in progress (0: none)
    slept,       \* slept[r]: nanoseconds slept so far (recorded when timed)
    result,      \* result[r]: what the caller received from run_cache
    calls,       \* calls[r]: the adapter calls and sleeps of run_cache
    wcalls,      \* wcalls[r]: the adapter calls of warmup_cache
    wresult      \* wresult[r]: what the caller received from warmup_cache

replayVars == <<tasks, timed, warmup_ops, ops, cache, cache0, pc, i,
                hits, misses, delay, slept, result, calls, wcalls, wresult>>

\* a call of the log: replay position, what was called, key, value (for a
\* get: 1 when the key was found, 0 when not)
Event(n, c, k, v) == [op |-> n, call |-> c, key |-> k, val |-> v]

NoResult == [ok |-> FALSE, hits |-> 0, misses |-> 0]
OkResult(h, m) == [ok |-> TRUE, hits |-> h, misses |-> m]

(***************************************************************************)
(* simulate_backend_latency: rng.random_range(MIN_DELAY_US * 1000 ..=      *)
(* MAX_DELAY_US * 1000) nanoseconds.  The range holds a million values;    *)
(* the model draws its two ends.                                           *)
(***************************************************************************)
DelayLo == MIN_DELAY_US * 1000
DelayHi == MAX_DELAY_US * 1000
\* the microsecond bounds handed to Duration::from_nanos unconverted
DelayNsUnconverted == {MIN_DELAY_US, MAX_DELAY_US}
DelayNs == {DelayLo, DelayHi}

(***************************************************************************)
(* WarmupManager::warmup_cache.  It holds no .await: one poll runs the     *)
(* whole loop.  WarmupStep is one iteration, WarmupFold the loop; the      *)
(* state is the pair [c: adapter, log: calls made].                        *)
(***************************************************************************)
WarmupSideKey(k) == k + 1000

\* a Read filling its own key on a miss, as the read-through of run_cache does
WarmupReadFill(st, n, k) ==
    IF Has(st.c, k)
    THEN [c   |-> CacheGet(st.c, k),
          log |-> Append(st.log, Event(n, "get", k, 1))]
    ELSE [c   |-> CacheInsert(st.c, k, k),
          log |-> st.log \o <<Event(n, "get", k, 0), Event(n, "insert", k, k)>>]
WarmupRead(st, n, k) ==
    LET c1   == CacheGet(st.c, k)
        log1 == Append(st.log, Event(n, "get", k, IF Has(st.c, k) THEN 1 ELSE 0))
    IN  IF k % 10 = 0
        THEN [c   |-> CacheInsert(c1, WarmupSideKey(k), WarmupSideKey(k)),
              log |-> Append(log1, Event(n, "insert", WarmupSideKey(k), WarmupSideKey(k)))]
        ELSE [c |-> c1, log |-> log1]

WarmupWriteSkipped(st, n, k, v) ==
    [c |-> st.c, log |-> Append(st.log, Event(n, "insert", k, v))]

WarmupWrite(st, n, k, v) ==
    [c   |-> CacheInsert(st.c, k, v),
     log |-> Append(st.log, Event(n, "insert", k, v))]

\* a Read that is passed over: no get
WarmupStepNoGet(st, n, op) ==
    IF op.type = "Read"
    THEN st
    ELSE WarmupWrite(st, n, op.key, op.val)

WarmupStep(st, n, op) ==
    IF op.type = "Read"
    THEN WarmupRead(st, n, op.key)
    ELSE WarmupWrite(st, n, op.key, op.val)

RECURSIVE WarmupFold(_, _, _)
WarmupFold(st, wops, n) ==
    IF n > Len(wops)
    THEN st
    ELSE WarmupFold(WarmupStep(st, n, wops[n]), wops, n + 1)

\* what warmup_cache returns after its loop: Ok(()) (line 229); before the
\* call the caller holds nothing
WarmupOk == [done |-> TRUE, ok |-> TRUE]
NotReturned == [done |-> FALSE, ok |-> FALSE]

\* the adapter replay r works on: its own (bench: the setup closure builds
\* one per iteration, and run_cache takes it by value, `mut cache: C`)
AdapterShared(r) == 1

Adapter(r) == r

\* bench: warmup_mgr.warmup_cache(&mut cache, &warmup_ops) on the fresh cache
WarmupCache(r) ==
    /\ pc[r] = "fresh"
    /\ LET st == WarmupFold([c |-> cache[Adapter(r)], log |-> <<>>], warmup_ops, 1)
       IN  /\ cache' = [cache EXCEPT ![Adapter(r)] = st.c]
           /\ wcalls' = [wcalls EXCEPT ![r] = st.log]
    /\ wresult' = [wresult EXCEPT ![r] = WarmupOk]
    /\ pc' = [pc EXCEPT ![r] = "primed"]
    /\ UNCHANGED <<tasks, timed, warmup_ops, ops, cache0, i, hits, misses,
                   delay, slept, result, calls>>

(***************************************************************************)
(* CacheRunner::run_cache.                                                 *)
(***************************************************************************)
\* the call (bench: run_hashlink_with_cache(cache, &ops)): the adapter is
\* moved into the future; nothing runs yet.  run_hashlink's call on a cache
\* that was never primed is the call after a warmup with no ops.
CallRunCache(r) ==
    /\ pc[r] = "primed"
    /\ cache0' = [cache0 EXCEPT ![r] = cache[Adapter(r)]]
    /\ pc' = [pc EXCEPT ![r] = "created"]
    /\ UNCHANGED <<tasks, timed, warmup_ops, ops, cache, i, hits,
                   misses, delay, slept, result, calls, wcalls, wresult>>

\* let mut hits = 0u64; let mut misses = 0u64;
InitialCount == 0

\* what an op adds to the counters: a Read adds one hit when get found the
\* key and one miss when not (lines 250-253); a Write adds nothing
CountStepWriteMiss(type, found) ==
    IF type = "Read"
    THEN IF found THEN [h |-> 1, m |-> 0] ELSE [h |-> 0, m |-> 1]
    ELSE [h |-> 0, m |-> 1]

CountStep(type, found) ==
    IF type = "Read"
    THEN IF found THEN [h |-> 1, m |-> 0] ELSE [h |-> 0, m |-> 1]
    ELSE [h |-> 0, m |-> 0]

\* first poll: lines 243-245, up to the loop
Begin(r) ==
    /\ pc[r] = "created"
    /\ hits' = [hits EXCEPT ![r] = InitialCount]
    /\ misses' = [misses EXCEPT ![r] = InitialCount]
    /\ i' = [i EXCEPT ![r] = 1]
    /\ pc' = [pc EXCEPT ![r] = "loop"]
    /\ UNCHANGED <<tasks, timed, warmup_ops, ops, cache, cache0, delay, slept, result, calls, wcalls, wresult>>

\* the position after op n of the loop
NextIndexSkip(n) == n + 2

NextIndex(n) == n + 1

\* Op::Read(key), cache.get(key).is_some(): hits += 1
ReadHit(r) ==
    /\ pc[r] = "loop"
    /\ i[r] <= Len(ops[r])
    /\ ops[r][i[r]].type = "Read"
    /\ LET k == ops[r][i[r]].key
       IN  /\ Has(cache[Adapter(r)], k)
           /\ cache' = [cache EXCEPT ![Adapter(r)] = CacheGet(cache[Adapter(r)], k)]
           /\ calls' = [calls EXCEPT ![r] = Append(@, Event(i[r], "get", k, 1))]
    /\ hits' = [hits EXCEPT ![r] = @ + CountStep("Read", TRUE).h]
    /\ misses' = [misses EXCEPT ![r] = @ + CountStep("Read", TRUE).m]
    /\ i' = [i EXCEPT ![r] = NextIndex(@)]
    /\ UNCHANGED <<tasks, timed, warmup_ops, ops, cache0, pc,
                   delay, slept, result, wcalls, wresult>>

\* Op::Read(key), get found nothing: misses += 1, then the .await of line 254
ReadMiss(r) ==
    /\ pc[r] = "loop"
    /\ i[r] <= Len(ops[r])
    /\ ops[r][i[r]].type = "Read"
    /\ LET k == ops[r][i[r]].key
       IN  /\ ~Has(cache[Adapter(r)], k)
           /\ cache' = [cache EXCEPT ![Adapter(r)] = CacheGet(cache[Adapter(r)], k)]
           /\ calls' = [calls EXCEPT ![r] =
                          @ \o <<Event(i[r], "get", k, 0), Event(i[r], "sleep", k, k)>>]
    /\ hits' = [hits EXCEPT ![r] = @ + CountStep("Read", FALSE).h]
    /\ misses' = [misses EXCEPT ![r] = @ + CountStep("Read", FALSE).m]
    /\ \E d \in DelayNs : delay' = [delay EXCEPT ![r] = d]
    /\ pc' = [pc EXCEPT ![r] = "await_read"]
    /\ UNCHANGED <<tasks, timed, warmup_ops, ops, cache0, i,
                   slept, result, wcalls, wresult>>

\* (a Write that sleeps only when its key is not cached yet)
WriteSleepIfAbsent(r) ==
    /\ pc[r] = "loop"
    /\ i[r] <= Len(ops[r])
    /\ ops[r][i[r]].type = "Write"
    /\ LET op == ops[r][i[r]]
       IN  IF Has(cache[Adapter(r)], op.key)
           THEN /\ cache' = [cache EXCEPT ![Adapter(r)] = CacheInsert(@, op.key, op.val)]
                /\ calls' = [calls EXCEPT ![r] = Append(@, Event(i[r], "insert", op.key, op.val))]
                /\ i' = [i EXCEPT ![r] = NextIndex(@)]
                /\ UNCHANGED <<pc, delay>>
           ELSE /\ calls' = [calls EXCEPT ![r] = Append(@, Event(i[r], "sleep", op.key, op.val))]
                /\ \E d \in DelayNs : delay' = [delay EXCEPT ![r] = d]
                /\ pc' = [pc EXCEPT ![r] = "await_write"]
                /\ UNCHANGED <<cache, i>>
    /\ UNCHANGED <<tasks, timed, warmup_ops, ops, cache0, hits, misses,
                   slept, result, wcalls, wresult>>
\* Op::Write(key, val): the .await of line 259 comes first
WriteSleep(r) ==
    /\ pc[r] = "loop"
    /\ i[r] <= Len(ops[r])
    /\ ops[r][i[r]].type = "Write"
    /\ LET op == ops[r][i[r]]
       IN  calls' = [calls EXCEPT ![r] = Append(@, Event(i[r], "sleep", op.key, op.val))]
    /\ hits' = [hits EXCEPT ![r] = @ + CountStep("Write", Has(cache[Adapter(r)], ops[r][i[r]].key)).h]
    /\ misses' = [misses EXCEPT ![r] = @ + CountStep("Write", Has(cache[Adapter(r)], ops[r][i[r]].key)).m]
    /\ \E d \in DelayNs : delay' = [delay EXCEPT ![r] = d]
    /\ pc' = [pc EXCEPT ![r] = "await_write"]
    /\ UNCHANGED <<tasks, timed, warmup_ops, ops, cache, cache0, i,
                   slept, result, wcalls, wresult>>

\* what is inserted once the sleep is over: (key, key) after a Read miss
\* (line 255), (key, val) for a Write (line 260)
FillValueDefault(op) == IF op.type = "Read" THEN 0 ELSE op.val

FillValueKey(op) == op.key

FillValue(op) == IF op.type = "Read" THEN op.key ELSE op.val

\* (a backend fetch that gives up when the sleep was the longest one)
WakeUnlessSlow(r) ==
    /\ pc[r] \in {"await_read", "await_write"}
    /\ LET op == ops[r][i[r]]
       IN  /\ cache' = [cache EXCEPT ![Adapter(r)] =
                          IF delay[r] = DelayHi
                          THEN @
                          ELSE CacheInsert(@, op.key, FillValue(op))]
           /\ calls' = [calls EXCEPT ![r] =
                          Append(@, Event(i[r], "insert", op.key, FillValue(op)))]
    /\ slept' = [slept EXCEPT ![r] = IF timed THEN @ + delay[r] ELSE @]
    /\ delay' = [delay EXCEPT ![r] = 0]
    /\ i' = [i EXCEPT ![r] = NextIndex(@)]
    /\ pc' = [pc EXCEPT ![r] = "loop"]
    /\ UNCHANGED <<tasks, timed, warmup_ops, ops, cache0, hits,
                   misses, result, wcalls, wresult>>

\* the sleep is over: the future is polled again and inserts
Wake(r) ==
    /\ pc[r] \in {"await_read", "await_write"}
    /\ LET op == ops[r][i[r]]
       IN  /\ cache' = [cache EXCEPT ![Adapter(r)] = CacheInsert(cache[Adapter(r)], op.key, FillValue(op))]
           /\ calls' = [calls EXCEPT ![r] =
                          Append(@, Event(i[r], "insert", op.key, FillValue(op)))]
    /\ slept' = [slept EXCEPT ![r] = IF timed THEN @ + delay[r] ELSE @]
    /\ delay' = [delay EXCEPT ![r] = 0]
    /\ i' = [i EXCEPT ![r] = NextIndex(@)]
    /\ pc' = [pc EXCEPT ![r] = "loop"]
    /\ UNCHANGED <<tasks, timed, warmup_ops, ops, cache0, hits,
                   misses, result, wcalls, wresult>>

\* the loop bound one past the end: the return is never reached
LoopDoneNever(r) == i[r] > Len(ops[r]) + 1
\* the loop is over when every op has been taken
LoopDone(r) == i[r] > Len(ops[r])

\* Ok((hits, misses))
Return(r) ==
    /\ pc[r] = "loop"
    /\ LoopDone(r)
    /\ result' = [result EXCEPT ![r] = OkResult(hits[r], misses[r])]
    /\ pc' = [pc EXCEPT ![r] = "done"]
    /\ UNCHANGED <<tasks, timed, warmup_ops, ops, cache, cache0, i,
                   hits, misses, delay, slept, calls, wcalls, wresult>>

\* what the caller holds after the future was dropped at an .await
DroppedResultPartial(r) == OkResult(hits[r], misses[r])

DroppedResult(r) == NoResult

\* the scheduler drops the suspended future: its locals (counters, adapter)
\* go with it and the caller receives nothing
Cancel(r) ==
    /\ pc[r] \in {"await_read", "await_write"}
    /\ result' = [result EXCEPT ![r] = DroppedResult(r)]
    /\ delay' = [delay EXCEPT ![r] = 0]
    /\ pc' = [pc EXCEPT ![r] = "cancelled"]
    /\ UNCHANGED <<tasks, timed, warmup_ops, ops, cache, cache0, i,
                   hits, misses, slept, calls, wcalls, wresult>>

(***************************************************************************)
(* The generators: WorkloadGenerator and WarmupManager.                    *)
(*                                                                         *)
(* The configuration of src/src/config.rs is compiled in; the model draws  *)
(* it from small sets: cfg = [total_keys, zipf_s10, workload_size,         *)
(* capacity], the skew exponent in tenths.                                 *)
(***************************************************************************)
VARIABLES
    cfg,     \* the configuration constants of this build
    gens,    \* the generator instances
    kind,    \* kind[g]: "workload" (WorkloadGenerator) or "warmup" (WarmupManager)
    seed,    \* seed[g]: the seed new() was given
    rng,     \* rng[g]: the StdRng of the instance
    ncalls,  \* ncalls[g]: calls of generate / generate_warmup_ops so far
    gout     \* gout[g]: what the last call returned

genVars == <<cfg, gens, kind, seed, rng, ncalls, gout>>

(***************************************************************************)
(* StdRng.  Its state is held modulo RngMod; seed_from_u64 is a function   *)
(* of the seed and every draw is a function of the state, which is all the *)
(* model keeps of the generator.                                           *)
(***************************************************************************)
RngMod == 32

\* StdRng::seed_from_u64(seed)
SeedFromU64(sd) == sd % RngMod

\* one draw: the next state, which is also the word drawn
NextRng(s) == (5 * s + 3) % RngMod

(***************************************************************************)
(* rand_distr::Zipf.  Zipf::new(n, s) is an error when s >= 0 does not     *)
(* hold (STooSmall) or when n < 1 (NTooSmall); s = 0 is the uniform        *)
(* distribution and is accepted.  sample returns an integer of 1..=n, as a *)
(* float: rank 1 is the most frequent.  The model keeps the range and not  *)
(* the shape: each draw selects one rank.                                  *)
(***************************************************************************)
ZipfNew(n, s10) ==
    IF ~(s10 >= 0) THEN "STooSmall"
    ELSE IF n < 1 THEN "NTooSmall"
    ELSE "ok"

\* zipf.sample(&mut rng): two draws (the inverse-cdf draw and the acceptance
\* draw); [x: the rank sampled, rng: the state after]
ZipfSample(n, s) ==
    LET u == NextRng(s)
        y == NextRng(u)
    IN  [x |-> 1 + (u % n), rng |-> y]

\* `zipf.sample(&mut self.rng) as usize`
KeyOfSample(x) == x

\* rng.random::<f64>() < ratio, the ratio in percent
Below(word, pct) == word * 100 < pct * RngMod

\* what a call returns
GenOk(s) == [ok |-> TRUE, ops |-> s, err |-> "none", msg |-> "none"]
GenErr(variant, m) == [ok |-> FALSE, ops |-> <<>>, err |-> variant, msg |-> m]
NotCalled == [ok |-> FALSE, ops |-> <<>>, err |-> "none", msg |-> "not called"]

\* the key space each kind of generator builds its distribution over
KeySpace(k) == IF k = "workload" THEN cfg.total_keys ELSE cfg.capacity * 2

\* the loop of line 155 run over the inclusive range 0..=WORKLOAD_SIZE
IterationsInclusive(k) == IF k = "workload" THEN cfg.workload_size + 1 ELSE cfg.capacity
\* the iterations of each kind: WORKLOAD_SIZE, bench::WARMUP_SIZE
Iterations(k) == IF k = "workload" THEN cfg.workload_size ELSE cfg.capacity

\* one iteration of generate (lines 155-163) on [rng, ops]
GenerateStep(st, n) ==
    LET z   == ZipfSample(n, st.rng)
        key == KeyOfSample(z.x)
        r1  == NextRng(z.rng)
        r2  == NextRng(r1)
    IN  IF Below(r1, READ_RATIO_PCT)
        THEN [rng |-> r1, ops |-> Append(st.ops, Read(key))]
        ELSE [rng |-> r2, ops |-> Append(st.ops, Write(key, r2))]

\* the iteration pushing its Read before its Write
WarmupGenStepReadFirst(st, n) ==
    LET z   == ZipfSample(n, st.rng)
        key == KeyOfSample(z.x)
        r1  == NextRng(z.rng)
        r2  == NextRng(r1)
    IN  IF Below(r2, 20)
        THEN [rng |-> r2, ops |-> st.ops \o <<Read(key), Write(key, r1)>>]
        ELSE [rng |-> r2, ops |-> Append(st.ops, Write(key, r1))]
\* one iteration of generate_warmup_ops (lines 197-204)
WarmupGenStep(st, n) ==
    LET z   == ZipfSample(n, st.rng)
        key == KeyOfSample(z.x)
        r1  == NextRng(z.rng)
        r2  == NextRng(r1)
    IN  IF Below(r2, 20)
        THEN [rng |-> r2, ops |-> st.ops \o <<Write(key, r1), Read(key)>>]
        ELSE [rng |-> r2, ops |-> Append(st.ops, Write(key, r1))]

RECURSIVE GenFold(_, _, _, _)
GenFold(st, k, n, left) ==
    IF left = 0
    THEN st
    ELSE GenFold(IF k = "workload" THEN GenerateStep(st, n) ELSE WarmupGenStep(st, n),
                 k, n, left - 1)

\* the whole call: [rng: state after, out: value returned]
GenCall(k, s) ==
    LET made == ZipfNew(KeySpace(k), cfg.zipf_s10)
    IN  IF made # "ok"
        THEN [rng |-> s, out |-> GenErr("ZipfCreate", made)]
        ELSE LET st == GenFold([rng |-> s, ops |-> <<>>], k, KeySpace(k), Iterations(k))
             IN  [rng |-> st.rng, out |-> GenOk(st.ops)]

\* generate drawing from one generator shared by every instance instead of
\* self.rng
GenerateSharedRng(g) ==
    LET shared == CHOOSE h \in gens : \A o \in gens : h <= o
    IN  /\ kind[g] = "workload"
        /\ ncalls[g] < MaxCalls
        /\ rng' = [rng EXCEPT ![shared] = GenCall("workload", rng[shared]).rng]
        /\ gout' = [gout EXCEPT ![g] = GenCall("workload", rng[shared]).out]
        /\ ncalls' = [ncalls EXCEPT ![g] = @ + 1]
        /\ UNCHANGED <<cfg, gens, kind, seed>>
\* WorkloadGenerator::generate(&mut self)
Generate(g) ==
    /\ kind[g] = "workload"
    /\ ncalls[g] < MaxCalls
    /\ rng' = [rng EXCEPT ![g] = GenCall("workload", rng[g]).rng]
    /\ gout' = [gout EXCEPT ![g] = GenCall("workload", rng[g]).out]
    /\ ncalls' = [ncalls EXCEPT ![g] = @ + 1]
    /\ UNCHANGED <<cfg, gens, kind, seed>>

\* WarmupManager::generate_warmup_ops(&mut self)
GenerateWarmupOps(g) ==
    /\ kind[g] = "warmup"
    /\ ncalls[g] < MaxCalls
    /\ rng' = [rng EXCEPT ![g] = GenCall("warmup", rng[g]).rng]
    /\ gout' = [gout EXCEPT ![g] = GenCall("warmup", rng[g]).out]
    /\ ncalls' = [ncalls EXCEPT ![g] = @ + 1]
    /\ UNCHANGED <<cfg, gens, kind, seed>>

\* the configurations: the skew exponents -1.0, 0 and ZIPF_S
Skews == {-10, 0, ZIPF_S10}

Configs == [total_keys : 0..MaxKeys, zipf_s10 : Skews,
            workload_size : 0..MaxWorkload, capacity : 0..MaxCapacity]

\* WorkloadGenerator::new(seed) for the seeds 0, 1 and bench::WORKLOAD_SEED;
\* WarmupManager::new() seeds with bench::WARMUP_SEED
Seeds == {0, 1, WORKLOAD_SEED}

Instances == {[kind |-> "workload", seed |-> sd] : sd \in Seeds}
                 \cup {[kind |-> "warmup", seed |-> WARMUP_SEED]}

InitGen(gs) ==
    /\ cfg \in Configs
    /\ gens = gs
    /\ \E inst \in [gs -> Instances] :
          /\ kind = [g \in gs |-> inst[g].kind]
          /\ seed = [g \in gs |-> inst[g].seed]
          /\ rng = [g \in gs |-> SeedFromU64(inst[g].seed)]
    /\ ncalls = [g \in gs |-> 0]
    /\ gout = [g \in gs |-> NotCalled]

\* no generator at all: the replay specifications
NoGen ==
    /\ cfg = [total_keys |-> 0, zipf_s10 |-> ZIPF_S10, workload_size |-> 0, capacity |-> 0]
    /\ gens = {}
    /\ kind = <<>> /\ seed = <<>> /\ rng = <<>> /\ ncalls = <<>> /\ gout = <<>>

(***************************************************************************)
(* The hit-rate metric (cache.rs, calculate_hit_rate).                     *)
(***************************************************************************)
VARIABLES
    mhits,       \* the arguments of one call of calculate_hit_rate
    mmisses,
    rate         \* what the call produced

metricVars == <<mhits, mmisses, rate>>

\* the counter type u64, its 64 bits scaled to 4: the values 0..CounterMod-1
CounterMod == 16

Counters == 0..(CounterMod - 1)

\* an f64 percentage, kept exact as the quotient num / den (den > 0)
Pct(n, d) == [set |-> TRUE, panic |-> FALSE, num |-> n, den |-> d]

\* `attempt to add with overflow`: the call unwinds and returns nothing
Panicked == [set |-> TRUE, panic |-> TRUE, num |-> 0, den |-> 1]

NotRated == [set |-> FALSE, panic |-> FALSE, num |-> 0, den |-> 1]

\* `hits + misses` on u64 (line 270): with overflow checks (the dev
\* profile) a sum past the width panics, without them (the release and
\* bench profiles) it wraps
HitRate(h, m, checks) ==
    IF h + m >= CounterMod /\ checks
    THEN Panicked
    ELSE LET total == (h + m) % CounterMod
         IN  IF total = 0 THEN Pct(0, 1) ELSE Pct(h * 100, total)

\* CacheRunner::calculate_hit_rate(hits, misses)
CalculateHitRate ==
    /\ ~rate.set
    /\ \E checks \in BOOLEAN : rate' = HitRate(mhits, mmisses, checks)
    /\ UNCHANGED <<mhits, mmisses>>

NoMetric == mhits = 0 /\ mmisses = 0 /\ rate = NotRated

(***************************************************************************)
(* Error context (error.rs, ErrorContext::with_context).                   *)
(***************************************************************************)
VARIABLES
    res0,        \* a Result<T> as its producer returned it
    res,         \* the same Result after the contexts applied so far
    ctxs         \* the contexts applied, first to last

errVars == <<res0, res, ctxs>>

\* the most contexts applied to one Result
MaxContexts == 2

\* config::messages
WORKLOAD_GEN_FAILED == "Failed to generate workload"
WARMUP_FAILED == "Warmup operation failed"
CACHE_OPERATION_FAILED == "Cache operation failed"

\* a String is the sequence of its pieces; the literal ": " of the format
Sep == ": "

Contexts == {<<WORKLOAD_GEN_FAILED>>, <<WARMUP_FAILED>>, <<CACHE_OPERATION_FAILED>>}

\* enum AppError
Variants == {"RuntimeCreate", "ZipfCreate", "CacheOperation", "Io", "Config"}

\* the messages an error starts with: one piece, or one holding a ": "
Messages == {<<"n must be at least 1">>, <<"read", Sep, "unexpected eof">>}

ResOk(v) == [ok |-> TRUE, val |-> v, variant |-> "none", msg |-> <<>>]
ResErr(variant, m) == [ok |-> FALSE, val |-> 0, variant |-> variant, msg |-> m]

Results == {ResOk(v) : v \in {0, 1}} \cup {ResErr(t, m) : t \in Variants, m \in Messages}

\* the context alone: the message of the error is dropped
FormatContextOnly(context, m) == context

\* format!("{}: {}", context, msg)
FormatContext(context, m) == context \o <<Sep>> \o m

\* self.map_err(|e| match e { V(msg) => V(format!(..)) }) (lines 52-58)
WithContext(r, context) ==
    IF r.ok THEN r ELSE ResErr(r.variant, FormatContext(context, r.msg))

\* one `.with_context(c)` on the Result
ApplyContext(c) ==
    /\ Len(ctxs) < MaxContexts
    /\ res' = WithContext(res, c)
    /\ ctxs' = Append(ctxs, c)
    /\ UNCHANGED res0

NoErr == res0 = ResOk(0) /\ res = ResOk(0) /\ ctxs = <<>>

\* the state outside the replays and the generators
pureVars == <<metricVars, errVars>>

NoPure == NoMetric /\ NoErr

(***************************************************************************)
(* The replay specifications.                                              *)
(***************************************************************************)
\* the adapters the driver constructs: LRUs of one and of two entries, and
\* the unbounded reference adapter
FreshCaches == {NewCache(TRUE, 1), NewCache(TRUE, 2), NewCache(FALSE, 0)}

\* every replay of ts given the same element of S
Same(ts, S) == {[r \in ts |-> x] : x \in S}

InitReplay(ts, tm, warmSeqs, opSeqs, caches) ==
    /\ tasks = ts
    /\ timed = tm
    /\ warmup_ops \in warmSeqs
    /\ ops \in opSeqs
    /\ cache \in caches
    /\ cache0 = cache
    /\ pc = [r \in ts |-> "fresh"]
    /\ i = [r \in ts |-> 1]
    /\ hits = [r \in ts |-> 0]
    /\ misses = [r \in ts |-> 0]
    /\ delay = [r \in ts |-> 0]
    /\ slept = [r \in ts |-> 0]
    /\ result = [r \in ts |-> NoResult]
    /\ calls = [r \in ts |-> <<>>]
    /\ wcalls = [r \in ts |-> <<>>]
    /\ wresult = [r \in ts |-> NotReturned]
    /\ NoGen
    /\ NoPure

NextReplay ==
    \/ \E r \in tasks : WarmupCache(r) /\ UNCHANGED <<genVars, pureVars>>
    \/ \E r \in tasks : CallRunCache(r) /\ UNCHANGED <<genVars, pureVars>>
    \/ \E r \in tasks : Begin(r) /\ UNCHANGED <<genVars, pureVars>>
    \/ \E r \in tasks : ReadHit(r) /\ UNCHANGED <<genVars, pureVars>>
    \/ \E r \in tasks : ReadMiss(r) /\ UNCHANGED <<genVars, pureVars>>
    \/ \E r \in tasks : WriteSleep(r) /\ UNCHANGED <<genVars, pureVars>>
    \/ \E r \in tasks : Wake(r) /\ UNCHANGED <<genVars, pureVars>>
    \/ \E r \in tasks : Return(r) /\ UNCHANGED <<genVars, pureVars>>
    \/ \E r \in tasks : Cancel(r) /\ UNCHANGED <<genVars, pureVars>>

vars == <<replayVars, genVars, pureVars>>

\* one replay: any warmup sequence, any measured sequence, any adapter
Init ==
    InitReplay({1}, FALSE, SeqsUpTo(WarmOpSet, MaxWarmup),
               [{1} -> SeqsUpTo(OpSet, MaxOps)], [{1} -> FreshCaches])

Next == NextReplay

Spec == Init /\ [][Next]_vars

\* one replay after a longer warmup
InitWarm ==
    InitReplay({1}, FALSE, SeqsUpTo(WarmOpSet, MaxWarmupLong),
               [{1} -> SeqsUpTo(OpSet, MaxOpsShort)], [{1} -> FreshCaches])

SpecWarm == InitWarm /\ [][Next]_vars

\* the warmup sequences of the two-replay specifications: none, and one
\* that leaves key 0 in the adapter
ShortWarmups == {<<>>, <<Write(0, 7)>>}

\* two replays of the same sequence on equal adapters, under a time source
\* that records what each one slept
InitPair ==
    InitReplay({1, 2}, TRUE, ShortWarmups,
               Same({1, 2}, SeqsUpTo(OpSet, MaxOpsMulti)), Same({1, 2}, FreshCaches))

SpecPair == InitPair /\ [][Next]_vars

\* two replays, each with its own sequence and its own adapter
InitMulti ==
    InitReplay({1, 2}, FALSE, ShortWarmups,
               [{1, 2} -> SeqsUpTo(OpSet, MaxOpsIso)], Same({1, 2}, FreshCaches))

SpecMulti == InitMulti /\ [][Next]_vars

(***************************************************************************)
(* The completing specification: one replay that is never dropped, driven  *)
(* by block_on until it returns.  The runtime polls the future whenever it *)
(* can make a step and the timer ends every sleep, so a step that stays    *)
(* possible is taken (weak fairness of the steps).                         *)
(***************************************************************************)
InitLive ==
    InitReplay({1}, FALSE, ShortWarmups,
               [{1} -> SeqsUpTo(OpSet, MaxOps)], [{1} -> FreshCaches])

NextLive ==
    \/ \E r \in tasks : WarmupCache(r) /\ UNCHANGED <<genVars, pureVars>>
    \/ \E r \in tasks : CallRunCache(r) /\ UNCHANGED <<genVars, pureVars>>
    \/ \E r \in tasks : Begin(r) /\ UNCHANGED <<genVars, pureVars>>
    \/ \E r \in tasks : ReadHit(r) /\ UNCHANGED <<genVars, pureVars>>
    \/ \E r \in tasks : ReadMiss(r) /\ UNCHANGED <<genVars, pureVars>>
    \/ \E r \in tasks : WriteSleep(r) /\ UNCHANGED <<genVars, pureVars>>
    \/ \E r \in tasks : Wake(r) /\ UNCHANGED <<genVars, pureVars>>
    \/ \E r \in tasks : Return(r) /\ UNCHANGED <<genVars, pureVars>>

SpecLive == InitLive /\ [][NextLive]_vars /\ WF_vars(NextLive)
(***************************************************************************)
(* The generator specification: two generator instances under one          *)
(* configuration, and no replay.                                           *)
(***************************************************************************)
NoReplay ==
    /\ tasks = {}
    /\ timed = FALSE
    /\ warmup_ops = <<>>
    /\ ops = <<>> /\ cache = <<>> /\ cache0 = <<>> /\ pc = <<>> /\ i = <<>>
    /\ hits = <<>> /\ misses = <<>> /\ delay = <<>> /\ slept = <<>>
    /\ result = <<>> /\ calls = <<>> /\ wcalls = <<>> /\ wresult = <<>>

InitGenerators == InitGen({1, 2}) /\ NoReplay /\ NoPure

NextGen ==
    \/ \E g \in gens : Generate(g) /\ UNCHANGED <<replayVars, pureVars>>
    \/ \E g \in gens : GenerateWarmupOps(g) /\ UNCHANGED <<replayVars, pureVars>>

SpecGen == InitGenerators /\ [][NextGen]_vars

(***************************************************************************)
(* The metric specification: one call of calculate_hit_rate on any pair of *)
(* counter values.                                                         *)
(***************************************************************************)
InitMetric ==
    /\ mhits \in Counters
    /\ mmisses \in Counters
    /\ rate = NotRated
    /\ NoErr /\ NoGen /\ NoReplay

NextMetric == CalculateHitRate /\ UNCHANGED <<replayVars, genVars, errVars>>

SpecMetric == InitMetric /\ [][NextMetric]_vars

(***************************************************************************)
(* The error specification: any Result, given contexts one after another.  *)
(***************************************************************************)
InitErr ==
    /\ res0 \in Results
    /\ res = res0
    /\ ctxs = <<>>
    /\ NoMetric /\ NoGen /\ NoReplay

NextErr == \E c \in Contexts : ApplyContext(c) /\ UNCHANGED <<replayVars, genVars, metricVars>>

SpecErr == InitErr /\ [][NextErr]_vars

(***************************************************************************)
(* Helpers of the properties.                                              *)
(***************************************************************************)
\* the number of Read ops among the first n ops of s
CountReads(s, n) == Cardinality({j \in 1..n : s[j].type = "Read"})

\* the calls and sleeps of replay position n
EventsOf(log, n) == SelectSeq(log, LAMBDA e : e.op = n)

Awaiting(r) == pc[r] \in {"await_read", "await_write"}

\* the ops whose counting has happened: up to the one in flight
OpsTaken(r) == IF Awaiting(r) \/ pc[r] = "cancelled" THEN i[r] ELSE i[r] - 1

\* the op the loop of replay r stands at, when it stands at one
AtOp(r) == pc[r] = "loop" /\ i[r] <= Len(ops[r])

(***************************************************************************)
(* C1. Counting law: the counters start at 0, never decrease, each Read    *)
(* that is processed adds exactly 1 to exactly one of them, a Write adds   *)
(* nothing; at every point hits + misses is the number of Read ops         *)
(* processed so far, and the pair returned sums to the number of Read ops  *)
(* of the sequence.                                                        *)
(***************************************************************************)
C1_Sum ==
    \A r \in tasks :
        /\ hits[r] >= 0 /\ misses[r] >= 0
        /\ pc[r] \in {"fresh", "primed", "created"} => hits[r] = 0 /\ misses[r] = 0
        /\ hits[r] + misses[r] = CountReads(ops[r], OpsTaken(r))
        /\ result[r].ok =>
              result[r].hits + result[r].misses = CountReads(ops[r], Len(ops[r]))

C1_Step ==
    \A r \in tasks :
        LET readStep == /\ AtOp(r)
                        /\ ops[r][i[r]].type = "Read"
                        /\ <<pc[r], i[r]>> # <<pc'[r], i'[r]>>
        IN  /\ hits'[r] >= hits[r]
            /\ misses'[r] >= misses[r]
            /\ (hits'[r] - hits[r]) + (misses'[r] - misses[r])
                  = IF readStep THEN 1 ELSE 0

C1_CountingLaw == []C1_Sum /\ [][C1_Step]_vars

C1_Witness ==
    \E r \in tasks :
        /\ pc[r] = "done"
        /\ result[r].hits >= 1
        /\ result[r].misses >= 1
        /\ \E j \in 1..Len(ops[r]) : ops[r][j].type = "Write"

(***************************************************************************)
(* C2. Read handling: a Read(key) calls get once; found: hits grows, the   *)
(* replay does not suspend and inserts nothing; not found: misses grows,   *)
(* the replay suspends once and, only when the sleep is over, calls        *)
(* insert(key, key).                                                       *)
(***************************************************************************)
ReadHitLog(n, k) == <<Event(n, "get", k, 1)>>
ReadMissLog(n, k) ==
    <<Event(n, "get", k, 0), Event(n, "sleep", k, k), Event(n, "insert", k, k)>>

C2_Log ==
    \A r \in tasks : \A n \in 1..Len(ops[r]) :
        ops[r][n].type = "Read" =>
            LET k  == ops[r][n].key
                ev == EventsOf(calls[r], n)
            IN  IF n < i[r]
                THEN ev = ReadHitLog(n, k) \/ ev = ReadMissLog(n, k)
                ELSE IF n = i[r] /\ pc[r] \in {"await_read", "cancelled"}
                THEN ev = SubSeq(ReadMissLog(n, k), 1, 2)
                ELSE ev = <<>>

C2_Step ==
    \A r \in tasks :
        /\ ( /\ AtOp(r)
             /\ ops[r][i[r]].type = "Read"
             /\ <<pc[r], i[r]>> # <<pc'[r], i'[r]>> ) =>
               LET k == ops[r][i[r]].key
               IN  IF Has(cache[r], k)
                   THEN /\ hits'[r] = hits[r] + 1 /\ misses'[r] = misses[r]
                        /\ pc'[r] = "loop" /\ i'[r] = i[r] + 1
                        /\ KeysOf(cache'[r]) = KeysOf(cache[r])
                        /\ Lookup(cache'[r], k) = Lookup(cache[r], k)
                   ELSE /\ misses'[r] = misses[r] + 1 /\ hits'[r] = hits[r]
                        /\ pc'[r] = "await_read" /\ i'[r] = i[r]
                        /\ cache'[r] = cache[r]
        /\ (pc[r] = "await_read" /\ pc'[r] = "loop") =>
               LET k == ops[r][i[r]].key
               IN  /\ Has(cache'[r], k) /\ Lookup(cache'[r], k) = k
                   /\ i'[r] = i[r] + 1
                   /\ hits'[r] = hits[r] /\ misses'[r] = misses[r]

C2_ReadHandling == []C2_Log /\ [][C2_Step]_vars

\* a replay that has served one Read from the adapter and one from the backend
C2_Witness ==
    \E r \in tasks : \E n, m \in 1..Len(ops[r]) :
        /\ pc[r] = "done"
        /\ ops[r][n].type = "Read" /\ ops[r][m].type = "Read"
        /\ EventsOf(calls[r], n) = ReadHitLog(n, ops[r][n].key)
        /\ EventsOf(calls[r], m) = ReadMissLog(m, ops[r][m].key)

(***************************************************************************)
(* C3. Write handling: a Write(key, value) suspends once and then calls    *)
(* insert(key, value), whether or not the key is cached; it leaves hits    *)
(* and misses as they are.                                                 *)
(***************************************************************************)
WriteLog(n, k, v) == <<Event(n, "sleep", k, v), Event(n, "insert", k, v)>>

C3_Log ==
    \A r \in tasks : \A n \in 1..Len(ops[r]) :
        ops[r][n].type = "Write" =>
            LET op == ops[r][n]
                ev == EventsOf(calls[r], n)
            IN  IF n < i[r]
                THEN ev = WriteLog(n, op.key, op.val)
                ELSE IF n = i[r] /\ pc[r] \in {"await_write", "cancelled"}
                THEN ev = SubSeq(WriteLog(n, op.key, op.val), 1, 1)
                ELSE ev = <<>>

C3_Step ==
    \A r \in tasks :
        /\ ( /\ AtOp(r)
             /\ ops[r][i[r]].type = "Write"
             /\ <<pc[r], i[r]>> # <<pc'[r], i'[r]>> ) =>
               /\ pc'[r] = "await_write" /\ i'[r] = i[r]
               /\ cache'[r] = cache[r]
               /\ hits'[r] = hits[r] /\ misses'[r] = misses[r]
        /\ (pc[r] = "await_write" /\ pc'[r] # "await_write") =>
               /\ hits'[r] = hits[r] /\ misses'[r] = misses[r]
               /\ pc'[r] = "loop" =>
                     /\ Has(cache'[r], ops[r][i[r]].key)
                     /\ Lookup(cache'[r], ops[r][i[r]].key) = ops[r][i[r]].val
                     /\ i'[r] = i[r] + 1

C3_WriteHandling == []C3_Log /\ [][C3_Step]_vars

\* a finished replay with a Write of a key that was cached when it was taken
\* and a Write of one that was not, and no Read at all
C3_Witness ==
    \E r \in tasks : \E n, m \in 1..Len(ops[r]) :
        /\ pc[r] = "done"
        /\ n < m
        /\ ops[r][n].type = "Write" /\ ops[r][m].type = "Write"
        /\ ops[r][n].key = ops[r][m].key /\ ops[r][n].val # ops[r][m].val
        /\ ~Has(cache0[r], ops[r][n].key)
        /\ Lookup(cache[r], ops[r][m].key) = ops[r][m].val
        /\ result[r] = OkResult(0, 0)

(***************************************************************************)
(* C4. Ordering: the ops are taken strictly in input order, each exactly   *)
(* once; the calls of op n+1 start only after op n is complete (its get    *)
(* found the key, or its insert was made); at most one suspension is       *)
(* outstanding.                                                            *)
(***************************************************************************)
\* the call that ends an op: the insert, or a get that found the key
Terminal(e) == e.call = "insert" \/ (e.call = "get" /\ e.val = 1)

CountCalls(log, c) == Cardinality({j \in 1..Len(log) : log[j].call = c})

C4_InOrder ==
    \A r \in tasks :
        LET log == calls[r]
        IN  /\ log # <<>> => log[1].op = 1
            /\ \A j \in 1..(Len(log) - 1) :
                  \/ log[j + 1].op = log[j].op /\ ~Terminal(log[j])
                  \/ log[j + 1].op = log[j].op + 1 /\ Terminal(log[j])
            /\ \A j \in 1..Len(log) :
                  /\ log[j].op \in 1..Len(ops[r])
                  /\ log[j].key = ops[r][log[j].op].key
            /\ LET open == CountCalls(log, "sleep") - CountCalls(log, "insert")
               IN  /\ open \in {0, 1}
                   /\ open = 1 <=> (Awaiting(r) \/ pc[r] = "cancelled")
            /\ pc[r] = "done" =>
                  /\ {log[j].op : j \in 1..Len(log)} = 1..Len(ops[r])
                  /\ log # <<>> => Terminal(log[Len(log)])

C4_Witness ==
    \E r \in tasks :
        /\ pc[r] = "done"
        /\ Len(ops[r]) >= 3
        /\ CountCalls(calls[r], "sleep") >= 2
        /\ CountCalls(calls[r], "get") >= 1

(***************************************************************************)
(* C6. Cancellation: a replay dropped while it sleeps reports no pair; a   *)
(* pair reaches the caller only when every op has been processed.          *)
(***************************************************************************)
C6_Atomic ==
    \A r \in tasks :
        /\ pc[r] = "cancelled" => ~result[r].ok
        /\ result[r].ok =>
              /\ pc[r] = "done"
              /\ i[r] = Len(ops[r]) + 1
              /\ result[r] = OkResult(hits[r], misses[r])
              /\ \A n \in 1..Len(ops[r]) :
                    LET ev == EventsOf(calls[r], n)
                    IN  ev # <<>> /\ Terminal(ev[Len(ev)])

\* dropped in the middle of the sequence, with counts already made
C6_Witness ==
    \E r \in tasks :
        /\ pc[r] = "cancelled"
        /\ hits[r] >= 1 /\ misses[r] >= 1
        /\ i[r] < Len(ops[r])
        /\ result[r] = NoResult

(***************************************************************************)
(* C5. Cache-aside oracle: on the unbounded adapter, primed from empty by  *)
(* warmup_cache, the first Read in run_cache of a key whose last warmup op *)
(* was a Write is a hit.                                                   *)
(***************************************************************************)
LastWarmupOpIsWrite(k) ==
    \E j \in 1..Len(warmup_ops) :
        /\ warmup_ops[j] \in {Write(k, v) : v \in WarmVals}
        /\ \A m \in (j + 1)..Len(warmup_ops) : warmup_ops[m].key # k

\* the first get of key k in the log, as a set of positions (empty or one)
FirstGet(log, k) ==
    {j \in 1..Len(log) :
        /\ log[j].call = "get" /\ log[j].key = k
        /\ \A m \in 1..(j - 1) : ~(log[m].call = "get" /\ log[m].key = k)}

C5_Oracle ==
    \A r \in tasks : \A k \in Keys :
        (~cache0[r].bounded /\ LastWarmupOpIsWrite(k)) =>
            \A j \in FirstGet(calls[r], k) :
                /\ calls[r][j].val = 1
                /\ hits[r] >= 1

\* the key was written, read and written again in warmup, and then read in
\* the measured phase after an op on the other key
C5_Witness ==
    \E r \in tasks : \E k \in Keys :
        /\ pc[r] = "done"
        /\ ~cache0[r].bounded
        /\ LastWarmupOpIsWrite(k)
        /\ Len(warmup_ops) >= 2
        /\ Len(ops[r]) >= 2 /\ ops[r][1].key # k
        /\ FirstGet(calls[r], k) # {}
        /\ result[r].hits >= 1

(***************************************************************************)
(* C7. Delay independence: two replays of the same sequence on equal       *)
(* adapters make the same get / insert calls and return the same pair,     *)
(* whatever delays each one draws.                                         *)
(***************************************************************************)
IsPrefix(a, b) == Len(a) <= Len(b) /\ a = SubSeq(b, 1, Len(a))

C7_DelayIndependent ==
    \A r, q \in tasks :
        (ops[r] = ops[q] /\ cache0[r] = cache0[q] /\ pc[r] \notin {"fresh", "primed"}
                         /\ pc[q] \notin {"fresh", "primed"}) =>
            /\ IsPrefix(calls[r], calls[q]) \/ IsPrefix(calls[q], calls[r])
            /\ (pc[r] = "done" /\ pc[q] = "done") =>
                  /\ result[r] = result[q]
                  /\ calls[r] = calls[q]
                  /\ cache[r] = cache[q]

\* both replays are over, with hits and misses, and slept different times
C7_Witness ==
    /\ tasks = {1, 2}
    /\ pc[1] = "done" /\ pc[2] = "done"
    /\ slept[1] # slept[2]
    /\ result[1].hits >= 1 /\ result[1].misses >= 1
    /\ result[1] = result[2]

(***************************************************************************)
(* C8. Replay isolation: replays interleaved at their sleeps, each with    *)
(* its own adapter and counters, each return the pair they return when run *)
(* alone; a step of one replay leaves the adapter and the counters of the  *)
(* others as they are.                                                     *)
(***************************************************************************)
\* run_cache with nothing interleaved: the loop of lines 247-263 on state
\* [c: adapter, h: hits, m: misses]
SoloStep(st, op) ==
    IF op.type = "Read"
    THEN IF Has(st.c, op.key)
         THEN [c |-> CacheGet(st.c, op.key), h |-> st.h + 1, m |-> st.m]
         ELSE [c |-> CacheInsert(st.c, op.key, op.key), h |-> st.h, m |-> st.m + 1]
    ELSE [c |-> CacheInsert(st.c, op.key, op.val), h |-> st.h, m |-> st.m]

RECURSIVE SoloFold(_, _, _)
SoloFold(st, s, n) ==
    IF n > Len(s) THEN st ELSE SoloFold(SoloStep(st, s[n]), s, n + 1)

Solo(c, s) == SoloFold([c |-> c, h |-> 0, m |-> 0], s, 1)

C8_Alone ==
    \A r \in tasks :
        pc[r] = "done" =>
            /\ result[r] = OkResult(Solo(cache0[r], ops[r]).h, Solo(cache0[r], ops[r]).m)
            /\ cache[r] = Solo(cache0[r], ops[r]).c

C8_Frame ==
    \A r, q \in tasks :
        (r # q /\ pc'[r] # pc[r]) =>
            /\ cache'[q] = cache[q]
            /\ hits'[q] = hits[q] /\ misses'[q] = misses[q]
            /\ calls'[q] = calls[q] /\ result'[q] = result[q]

C8_Isolation == []C8_Alone /\ [][C8_Frame]_vars

\* replay 2 read a key while replay 1 slept on its write of the same key,
\* and both are over
C8_Witness ==
    /\ tasks = {1, 2}
    /\ pc[1] = "done" /\ pc[2] = "done"
    /\ ops[1] # <<>> /\ ops[2] # <<>>
    /\ ops[1][1].type = "Write" /\ ops[2][1] = Read(ops[1][1].key)
    /\ result[2].misses = 1
    /\ Lookup(cache[1], ops[1][1].key) = ops[1][1].val
    /\ Lookup(cache[2], ops[1][1].key) = ops[1][1].key

(***************************************************************************)
(* C9. Key bounds: every key of a sequence returned by generate is in      *)
(* [0, total_keys), and every key returned by generate_warmup_ops is in    *)
(* [0, 2 x capacity), the upper bounds exclusive (under a configuration    *)
(* whose skew exponent is positive, as the configuration requires).        *)
(***************************************************************************)
C9_KeyBounds ==
    \A g \in gens :
        (gout[g].ok /\ cfg.zipf_s10 > 0) =>
            \A j \in 1..Len(gout[g].ops) :
                /\ gout[g].ops[j].key >= 0
                /\ gout[g].ops[j].key < KeySpace(kind[g])

(***************************************************************************)
(* C10. Parameter validation: with a skew exponent <= 0 (0 included) or an *)
(* empty key space, generate and generate_warmup_ops return an error value *)
(* and no sequence.                                                        *)
(***************************************************************************)
C10_Validation ==
    \A g \in gens :
        (ncalls[g] >= 1 /\ (cfg.zipf_s10 <= 0 \/ KeySpace(kind[g]) = 0)) =>
            /\ ~gout[g].ok
            /\ gout[g].err = "ZipfCreate"
            /\ gout[g].ops = <<>>


(***************************************************************************)
(* C11. Length: every successful generate returns exactly workload_size    *)
(* operations, whatever the seed, the first time and on every later call   *)
(* on the same instance.                                                   *)
(***************************************************************************)
C11_Length ==
    \A g \in gens :
        (kind[g] = "workload" /\ ncalls[g] >= 1 /\ gout[g].ok) =>
            Len(gout[g].ops) = cfg.workload_size

\* a second successful call on one instance, of two operations
C11_Witness ==
    \E g \in gens :
        /\ kind[g] = "workload" /\ ncalls[g] = 2 /\ gout[g].ok
        /\ cfg.workload_size = 2 /\ Len(gout[g].ops) = 2

(***************************************************************************)
(* C12. Determinism: two fresh generators built from the same seed, each   *)
(* having called generate once, have returned the same value; the value    *)
(* is the one the seed and the configuration alone determine.              *)
(***************************************************************************)
C12_Determinism ==
    \A g, h \in gens :
        (/\ kind[g] = "workload" /\ kind[h] = "workload"
         /\ seed[g] = seed[h]
         /\ ncalls[g] = 1 /\ ncalls[h] = 1) =>
            gout[g] = gout[h]

\* two distinct instances of one seed, each called once, with a sequence of
\* two operations over more than one key
C12_Witness ==
    \E g, h \in gens :
        /\ g # h /\ kind[g] = "workload" /\ kind[h] = "workload"
        /\ seed[g] = seed[h] /\ ncalls[g] = 1 /\ ncalls[h] = 1
        /\ gout[g].ok /\ Len(gout[g].ops) = 2 /\ cfg.total_keys >= 2
        /\ gout[g] = gout[h]

(***************************************************************************)
(* C13. Hit-rate metric: calculate_hit_rate(hits, misses) is 0.0 when      *)
(* hits + misses = 0 and hits / (hits + misses) * 100 otherwise, and it is *)
(* total: for every pair of counter values, pairs whose sum exceeds the    *)
(* counter width included, it returns a value in [0, 100].                 *)
(***************************************************************************)
C13_HitRate ==
    rate.set =>
        /\ ~rate.panic
        /\ (mhits + mmisses = 0) => rate.num = 0
        /\ (mhits + mmisses > 0) =>
               rate.num * (mhits + mmisses) = mhits * 100 * rate.den
        /\ rate.num >= 0
        /\ rate.num <= 100 * rate.den

(***************************************************************************)
(* C14. Latency bound: every delay drawn by simulate_backend_latency is    *)
(* between MIN_DELAY_US and MAX_DELAY_US microseconds, ends included, in   *)
(* the nanoseconds actually slept (1 microsecond = 1000 nanoseconds); so   *)
(* the time a replay has slept lies between its completed sleeps times     *)
(* each bound.                                                             *)
(***************************************************************************)
C14_LatencyBound ==
    \A r \in tasks :
        LET woken == CountCalls(calls[r], "insert")
        IN  /\ Awaiting(r) =>
                /\ delay[r] >= MIN_DELAY_US * 1000
                /\ delay[r] <= MAX_DELAY_US * 1000
            /\ timed =>
                /\ slept[r] >= woken * MIN_DELAY_US * 1000
                /\ slept[r] <= woken * MAX_DELAY_US * 1000

\* both ends drawn at once: one replay sleeping MIN_DELAY_US, the other
\* MAX_DELAY_US
C14_Witness ==
    /\ tasks = {1, 2}
    /\ Awaiting(1) /\ delay[1] = MIN_DELAY_US * 1000
    /\ Awaiting(2) /\ delay[2] = MAX_DELAY_US * 1000
    /\ slept[1] > 0

(***************************************************************************)
(* C15. Warmup replay is atomic and unmeasured: warmup_cache runs in one   *)
(* step with no suspension, so its calls are never seen half made; it      *)
(* takes the ops in input order, calls get for each Read and               *)
(* insert(key, value) for each Write, sleeps never, touches no counter,    *)
(* and always returns success.                                             *)
(***************************************************************************)
C15_WarmupAtomic ==
    \A r \in tasks :
        LET log == wcalls[r]
        IN  /\ pc[r] = "fresh" =>
                /\ log = <<>>
                /\ ~wresult[r].done
            /\ pc[r] # "fresh" =>
                /\ wresult[r].done /\ wresult[r].ok
                /\ \A n \in 1..Len(warmup_ops) :
                       LET ev == EventsOf(log, n)
                           op == warmup_ops[n]
                       IN  /\ ev # <<>>
                           /\ op.type = "Read" =>
                                  ev[1] = Event(n, "get", op.key, ev[1].val)
                           /\ op.type = "Write" =>
                                  ev = <<Event(n, "insert", op.key, op.val)>>
                /\ \A j \in 1..(Len(log) - 1) : log[j].op <= log[j + 1].op
                /\ CountCalls(log, "sleep") = 0
            /\ pc[r] = "primed" =>
                /\ hits[r] = 0 /\ misses[r] = 0
                /\ delay[r] = 0 /\ slept[r] = 0
                /\ calls[r] = <<>>

\* a warmup of a Write and a Read has returned
C15_Witness ==
    \E r \in tasks :
        /\ pc[r] = "primed"
        /\ warmup_ops = <<Write(0, 7), Read(0)>>
        /\ Len(wcalls[r]) = 3
        /\ wresult[r] = WarmupOk

(***************************************************************************)
(* C16. Error context chaining: with_context leaves an Ok result as it     *)
(* was; on an error it keeps the variant and turns the message m into      *)
(* "<context>: m", so the first message stays as a suffix, and contexts    *)
(* c1 then c2 give "c2: c1: m".                                            *)
(***************************************************************************)
IsSuffix(s, t) ==
    /\ Len(s) <= Len(t)
    /\ SubSeq(t, Len(t) - Len(s) + 1, Len(t)) = s

C16_Chaining ==
    /\ res0.ok => res = res0
    /\ ~res0.ok =>
        /\ ~res.ok
        /\ res.variant = res0.variant
        /\ IsSuffix(res0.msg, res.msg)
        /\ Len(ctxs) = 0 => res.msg = res0.msg
        /\ Len(ctxs) = 1 => res.msg = ctxs[1] \o <<": ">> \o res0.msg
        /\ Len(ctxs) = 2 =>
               res.msg = ctxs[2] \o <<": ">> \o ctxs[1] \o <<": ">> \o res0.msg

\* an error given two different contexts
C16_Witness ==
    /\ ~res0.ok /\ res0.variant = "ZipfCreate"
    /\ ctxs = <<<<WORKLOAD_GEN_FAILED>>, <<CACHE_OPERATION_FAILED>>>>
    /\ Len(res.msg) = Len(res0.msg) + 4

(***************************************************************************)
(* C17. Warmup sequence shape: a sequence returned by generate_warmup_ops  *)
(* holds exactly warmup_size (= capacity) Writes, starts with a Write,     *)
(* has every Read right after a Write of the same key, has no two Reads    *)
(* in a row, and is between warmup_size and 2 x warmup_size ops long.      *)
(***************************************************************************)
C17_WarmupShape ==
    \A g \in gens :
        (kind[g] = "warmup" /\ gout[g].ok) =>
            LET s      == gout[g].ops
                writes == {j \in 1..Len(s) : s[j].type = "Write"}
            IN  /\ Cardinality(writes) = cfg.capacity
                /\ s # <<>> => s[1].type = "Write"
                /\ \A j \in 1..Len(s) :
                       s[j].type = "Read" =>
                           /\ j > 1
                           /\ s[j - 1].type = "Write"
                           /\ s[j - 1].key = s[j].key
                /\ Len(s) >= cfg.capacity
                /\ Len(s) <= 2 * cfg.capacity

\* a returned warmup sequence with a Write alone and a Write with its Read
C17_Witness ==
    \E g \in gens :
        /\ kind[g] = "warmup" /\ gout[g].ok
        /\ cfg.capacity = 2
        /\ Len(gout[g].ops) = 3
        /\ \E j \in 1..3 : gout[g].ops[j].type = "Read"

(***************************************************************************)
(* C18. Warmup Read side effect: in warmup_cache a Read(key) calls get and *)
(* never inserts key itself, found or not; it inserts                      *)
(* (key + 1000, key + 1000) exactly when key is divisible by 10, found or  *)
(* not.  So after the warmup of an empty adapter every key present was     *)
(* written by a warmup Write or is key + 1000 of such a Read.              *)
(***************************************************************************)
WarmupWriteKeys == {warmup_ops[n].key : n \in {j \in 1..Len(warmup_ops) : warmup_ops[j].type = "Write"}}

WarmupSideKeys ==
    {warmup_ops[n].key + 1000 :
        n \in {j \in 1..Len(warmup_ops) :
                  warmup_ops[j].type = "Read" /\ warmup_ops[j].key % 10 = 0}}

C18_WarmupReadSideEffect ==
    \A r \in tasks :
        pc[r] # "fresh" =>
            /\ \A n \in 1..Len(warmup_ops) :
                   LET ev == EventsOf(wcalls[r], n)
                       k  == warmup_ops[n].key
                   IN  warmup_ops[n].type = "Read" =>
                           /\ ev # <<>>
                           /\ ev[1].call = "get" /\ ev[1].key = k
                           /\ \A j \in 1..Len(ev) :
                                  ev[j].call = "insert" => ev[j].key # k
                           /\ IF k % 10 = 0
                              THEN Tail(ev) = <<Event(n, "insert", k + 1000, k + 1000)>>
                              ELSE Tail(ev) = <<>>
            /\ KeysOf(IF pc[r] = "primed" THEN cache[r] ELSE cache0[r])
                   \subseteq (WarmupWriteKeys \cup WarmupSideKeys)

\* a warmup whose Read of key 0 missed: key 0 absent, key 1000 present
C18_Witness ==
    \E r \in tasks :
        /\ pc[r] = "primed"
        /\ warmup_ops = <<Write(1, 7), Read(0)>>
        /\ ~cache[r].bounded
        /\ KeysOf(cache[r]) = {1, 1000}

(***************************************************************************)
(* C20. Suspension count: a completed replay has slept as many times as    *)
(* its misses plus the Write ops of its sequence, and has called insert    *)
(* as many times; a replay of Read hits alone has not slept at all.        *)
(***************************************************************************)
C20_SuspensionCount ==
    \A r \in tasks :
        pc[r] = "done" =>
            LET writes == Len(ops[r]) - CountReads(ops[r], Len(ops[r]))
                sleeps == CountCalls(calls[r], "sleep")
            IN  /\ sleeps = result[r].misses + writes
                /\ CountCalls(calls[r], "insert") = result[r].misses + writes
                /\ (writes = 0 /\ result[r].misses = 0) => sleeps = 0

\* a completed replay of a hit, a miss and a Write
C20_Witness ==
    \E r \in tasks :
        /\ pc[r] = "done"
        /\ Len(ops[r]) = 3
        /\ result[r].hits = 1 /\ result[r].misses = 1
        /\ CountCalls(calls[r], "sleep") = 2

\* a completed replay of Read hits alone: no sleep
C20_WitnessHitsOnly ==
    \E r \in tasks :
        /\ pc[r] = "done"
        /\ Len(ops[r]) = 3
        /\ result[r].hits = 3
        /\ CountCalls(calls[r], "sleep") = 0

(***************************************************************************)
(* C19. Termination without error: a replay whose sleeps all end           *)
(* eventually returns; what it returns is a success Ok((hits, misses)),    *)
(* never an error, and by then each op of the sequence has been processed  *)
(* exactly once.                                                           *)
(***************************************************************************)
ProcessedOnce(r) ==
    /\ \A n \in 1..Len(ops[r]) :
           Cardinality({j \in 1..Len(calls[r]) :
                           calls[r][j].op = n /\ Terminal(calls[r][j])}) = 1
    /\ \A j \in 1..Len(calls[r]) : calls[r][j].op \in 1..Len(ops[r])
    /\ i[r] = Len(ops[r]) + 1

Returned(r) == pc[r] = "done" /\ result[r].ok /\ ProcessedOnce(r)

C19_Termination == <>(\A r \in tasks : Returned(r))

\* a replay of three ops, sleeps among them, has returned
C19_Witness ==
    \E r \in tasks :
        /\ Returned(r)
        /\ Len(ops[r]) = 3
        /\ result[r].misses >= 1
        /\ result[r].hits >= 1

(***************************************************************************)
(* C21. Reference result on a never-evicting adapter: a replay that        *)
(* started on an empty adapter that never evicts returns as misses the     *)
(* number of distinct keys whose first occurrence in the sequence is a     *)
(* Read and as hits the number of the other Read ops; at the end the       *)
(* adapter holds the touched keys, each with the value of its last Write   *)
(* if the sequence has one and with the key itself if not.                 *)
(***************************************************************************)
TouchedKeys(s) == {s[j].key : j \in 1..Len(s)}

\* the keys of s whose first occurrence is a Read
FirstIsRead(s) ==
    {k \in TouchedKeys(s) :
        \E j \in 1..Len(s) :
            /\ s[j].key = k /\ s[j].type = "Read"
            /\ \A m \in 1..(j - 1) : s[m].key # k}

\* the positions of the last Write of key k in s (empty or one)
LastWrite(s, k) ==
    {j \in 1..Len(s) :
        /\ s[j].key = k /\ s[j].type = "Write"
        /\ \A m \in (j + 1)..Len(s) : ~(s[m].key = k /\ s[m].type = "Write")}

C21_Reference ==
    \A r \in tasks :
        (pc[r] = "done" /\ ~cache0[r].bounded /\ cache0[r].entries = <<>>) =>
            LET s == ops[r]
            IN  /\ result[r].misses = Cardinality(FirstIsRead(s))
                /\ result[r].hits = CountReads(s, Len(s)) - Cardinality(FirstIsRead(s))
                /\ KeysOf(cache[r]) = TouchedKeys(s)
                /\ \A k \in TouchedKeys(s) :
                       IF LastWrite(s, k) = {}
                       THEN Lookup(cache[r], k) = k
                       ELSE \A j \in LastWrite(s, k) : Lookup(cache[r], k) = s[j].val

\* a key read first, then written twice; another key only read
C21_Witness ==
    \E r \in tasks :
        /\ pc[r] = "done" /\ ~cache0[r].bounded /\ cache0[r].entries = <<>>
        /\ ops[r] = <<Read(0), Write(0, 7), Write(0, 8)>>
        /\ result[r].misses = 1
        /\ Lookup(cache[r], 0) = 8

\* a hit, a miss and a key left with itself as its value
C21_WitnessReadOnly ==
    \E r \in tasks :
        /\ pc[r] = "done" /\ ~cache0[r].bounded /\ cache0[r].entries = <<>>
        /\ ops[r] = <<Read(1), Read(1), Read(0)>>
        /\ result[r].hits = 1 /\ result[r].misses = 2
        /\ Lookup(cache[r], 1) = 1
=============================================================================
